---- MODULE Spec2Model ----
(***************************************************************************)
(* ReportAI backend: the report generator (report_generator.py), the       *)
(* analyzer (ai_analyzer.py) and the HTTP handlers (main.py).              *)
(*                                                                         *)
(* Five specifications share this module:                                  *)
(*   Spec        ReportGenerator.generate, several calls running against   *)
(*               the one output directory and the one wall clock;          *)
(*   SpecRender  the three renderers applied to one dataset and one        *)
(*               report configuration;                                     *)
(*   SpecNested  the renderers applied to an analysis holding a nested     *)
(*               value;                                                    *)
(*   SpecAnalyze AIAnalyzer.analyze;                                       *)
(*   SpecHttp    the request handlers of main.py and file_store.           *)
(***************************************************************************)
EXTENDS Integers, Sequences, FiniteSets, TLC

\* ---------------------------------------------------------------- bounds
MaxCalls == 2      \* generate calls in flight
MaxClock == 1      \* wall-clock seconds 0..MaxClock
MaxRows == 11      \* dataset rows 0..MaxRows (more than head(10) keeps)
MaxCols == 7       \* dataset columns 0..MaxCols (more than the 6 kept)
MaxItems == 2      \* key findings / recommendations 0..MaxItems
MaxUploads == 2    \* uploads handled (uuid4 draws)

\* ------------------------------------------------------ program constants
HeadRows == 10     \* data.head(10)
ColLimit == 6      \* row[:6], min(len(columns), 6)
FindingsRow == 11  \* enumerate(findings, 11)

Min(a, b) == IF a < b THEN a ELSE b

\* ------------------------------------------------------------ DataFrame
\* A DataFrame is [nrows, ncols, dtype, coltype]: dtype is the common dtype
\* of the frame ("int64", "object" for strings, "datetime64" when every
\* column holds dates), coltype the Python type of the column labels.
\* The value at row r, column c (1-based) carries the payload
\* (r-1)*ncols + c, so that every position holds a different value.
Dtypes == {"int64", "object", "datetime64"}
ColTypes == {"str", "int"}

Payload(df, r, c) == (r - 1) * df.ncols + c

\* df.columns[c]
ColumnLabel(df, c) == [type |-> df.coltype, n |-> c]

\* element type of the ndarray df.values
NumpyType(dtype) ==
    CASE dtype = "int64" -> "numpy.int64"
      [] dtype = "object" -> "str"
      [] dtype = "datetime64" -> "numpy.datetime64"

\* df.values[r][c]
ValuesAt(df, r, c) == [type |-> NumpyType(df.dtype), n |-> Payload(df, r, c)]

\* data.head(k): the first k rows, all columns
DataHead(df, k) == [df EXCEPT !.nrows = Min(df.nrows, k)]

\* ndarray.tolist() on one element (ndarray.item()): the nearest builtin
\* type; a datetime64[ns] has none and becomes the int of its nanoseconds
ToListItem(v) ==
    CASE v.type = "numpy.int64" -> [type |-> "int", n |-> v.n]
      [] v.type = "numpy.datetime64" -> [type |-> "int", n |-> v.n]
      [] OTHER -> v

\* one element of a row of data.itertuples(index=False): a Python scalar,
\* a Timestamp for a date
ItertuplesItem(v) ==
    CASE v.type = "numpy.int64" -> [type |-> "int", n |-> v.n]
      [] v.type = "numpy.datetime64" -> [type |-> "Timestamp", n |-> v.n]
      [] OTHER -> v

\* str(v): the digits of an integer, the characters of a string, the ISO
\* text of a date
PyStr(v) ==
    CASE v.type \in {"int", "numpy.int64"} -> [form |-> "digits", n |-> v.n]
      [] v.type = "str" -> [form |-> "chars", n |-> v.n]
      [] v.type \in {"numpy.datetime64", "Timestamp"} -> [form |-> "iso", n |-> v.n]

\* ------------------------------------------------------- report config
\* config is the dict handed to generate: title is a sequence of
\* characters, the other entries are strings, analysis maps the keys the
\* analyzer returned to values [type, s] and lists of them.
PyText(s) == [type |-> "str", s |-> s]

\* a value json.loads built that is no str: a JSON object ("dict"), a list
\* of strings ("list[str]"), a list of objects ("list[dict]"); s names it
NestedTypes == {"dict", "list[str]", "list[dict]"}

PyNested(type, s) == [type |-> type, s |-> s]

\* d.get(k, default)
DictGet(d, k, default) == IF k \in DOMAIN d THEN d[k] ELSE default

\* datetime.now().strftime(...) at clock reading t
Strftime(t) == ToString(t)

\* ------------------------------------------------------------ _generate_pdf
PdfParagraph(text, style) ==
    [kind |-> "Paragraph", style |-> style, text |-> text, cells |-> <<>>]

PdfSpacer == [kind |-> "Spacer", style |-> "", text |-> <<>>, cells |-> <<>>]

PdfPageBreak == [kind |-> "PageBreak", style |-> "", text |-> <<>>, cells |-> <<>>]

\* the numbered items of enumerate(items, 1), a Spacer after each
PdfNumbered(items) ==
    [k \in 1..(2 * Len(items)) |->
        IF k % 2 = 1
        THEN PdfParagraph(<<ToString((k + 1) \div 2), ". ", items[(k + 1) \div 2].s>>,
                          "BodyText")
        ELSE PdfSpacer]

\* lines 166-171: [columns] + rows of head(10), every row cut to [:6] when
\* the header row is longer than 6
PdfTableData(df) ==
    LET sample_data == DataHead(df, HeadRows)
        header == [c \in 1..sample_data.ncols |-> ColumnLabel(sample_data, c)]
        rows == [r \in 1..sample_data.nrows |->
                    [c \in 1..sample_data.ncols |-> ToListItem(ValuesAt(sample_data, r, c))]]
        table_data == <<header>> \o rows
    IN  IF Len(table_data[1]) > ColLimit
        THEN [i \in 1..Len(table_data) |-> SubSeq(table_data[i], 1, ColLimit)]
        ELSE table_data

\* reportlab Table(data): a table without a row or without a column is
\* refused (emptyTableAction = 'error')
PdfTableRefused(table_data) ==
    \/ Len(table_data) = 0
    \/ \A i \in 1..Len(table_data) : Len(table_data[i]) = 0

\* reportlab Paragraph(text, style) parses text, which has to be a str
PdfParagraphRefused(v) == v.type # "str"

PdfMetadata(config, t) ==
    [kind |-> "Table", style |-> "meta",
     text |-> <<"Date:", config.date, "Company:", config.company,
                "Author:", config.author, "Generated:", Strftime(t)>>,
     cells |-> <<>>]

\* the flowables appended to elements, lines 112-214
PdfElements(df, config, t) ==
    LET analysis == config.analysis
        summary_text == DictGet(analysis, "executive_summary", PyText("No summary available"))
        findings == DictGet(analysis, "key_findings", <<>>)
        stat_analysis == DictGet(analysis, "statistical_analysis",
                                 PyText("No statistical analysis available"))
        recommendations == DictGet(analysis, "recommendations", <<>>)
        conclusion == DictGet(analysis, "conclusion", PyText("No conclusion available"))
    IN  <<PdfParagraph(config.title, "CustomTitle"), PdfSpacer,
          PdfMetadata(config, t), PdfSpacer,
          PdfParagraph(<<"Executive Summary">>, "CustomHeading"), PdfSpacer,
          PdfParagraph(<<summary_text.s>>, "BodyText"), PdfSpacer,
          PdfParagraph(<<"Key Findings">>, "CustomHeading"), PdfSpacer>>
        \o PdfNumbered(findings) \o
        <<PdfSpacer,
          PdfParagraph(<<"Statistical Analysis">>, "CustomHeading"), PdfSpacer,
          PdfParagraph(<<stat_analysis.s>>, "BodyText"), PdfSpacer,
          PdfParagraph(<<"Data Summary">>, "CustomHeading"), PdfSpacer,
          [kind |-> "Table", style |-> "data", text |-> <<>>, cells |-> PdfTableData(df)],
          PdfSpacer,
          PdfPageBreak,
          PdfParagraph(<<"Recommendations">>, "CustomHeading"), PdfSpacer>>
        \o PdfNumbered(recommendations) \o
        <<PdfSpacer,
          PdfParagraph(<<"Conclusion">>, "CustomHeading"), PdfSpacer,
          PdfParagraph(<<conclusion.s>>, "BodyText"),
          PdfSpacer,
          PdfParagraph(<<"Generated by ReportAI - Automated Quality Reports | ", Strftime(t)>>,
                       "Footer")>>

\* the first statement of _generate_pdf that raises before doc.build, or
\* "none"
PdfRaises(df, config) ==
    LET analysis == config.analysis
    IN  CASE PdfParagraphRefused(DictGet(analysis, "executive_summary", PyText("")))
                -> "Executive Summary"
          [] PdfParagraphRefused(DictGet(analysis, "statistical_analysis", PyText("")))
                -> "Statistical Analysis"
          [] PdfTableRefused(PdfTableData(df)) -> "Data Summary"
          [] PdfParagraphRefused(DictGet(analysis, "conclusion", PyText("")))
                -> "Conclusion"
          [] OTHER -> "none"

\* _generate_pdf up to doc.build(elements): the document held in memory
GeneratePdf(df, config, t) ==
    IF PdfRaises(df, config) = "none"
    THEN [ok |-> TRUE, stage |-> "none", elements |-> PdfElements(df, config, t)]
    ELSE [ok |-> FALSE, stage |-> PdfRaises(df, config), elements |-> <<>>]

\* ----------------------------------------------------------- _generate_word
DocxElement(kind, style, text, align) ==
    [kind |-> kind, style |-> style, text |-> text, cells |-> <<>>, align |-> align]

DocxHeading(text, level) ==
    DocxElement("heading", IF level = 0 THEN "Title" ELSE "Heading 1", text, "")

DocxParagraph(text) == DocxElement("paragraph", "Normal", text, "")

\* doc.add_paragraph(text) sets the run's text by walking text item by
\* item and testing each item with "in '\r\n'": an item that is no str is
\* a TypeError; a dict is walked by its keys, a list by its elements
DocxRunRefused(v) == v.type = "list[dict]"

\* the text the run then holds: the str itself, else the keys or the
\* elements joined
DocxRunText(v) ==
    CASE v.type = "str" -> v.s
      [] v.type = "dict" -> "keys of " \o v.s
      [] OTHER -> "elements of " \o v.s

DocxList(items, style) ==
    [k \in 1..Len(items) |->
        DocxElement("paragraph", style, <<DocxRunText(items[k])>>, "")]

EmptyCell == [form |-> "chars", n |-> 0]

\* lines 263-264: add_table(rows=len(sample_data)+1, cols=min(len(columns), 6))
DocxTableRows(df) == DataHead(df, HeadRows).nrows + 1

\* a grid one column narrower than the header loop writes
DocxTableColsNarrow(df) == Min(DataHead(df, HeadRows).ncols, ColLimit - 1)

DocxTableCols(df) == Min(DataHead(df, HeadRows).ncols, ColLimit)

\* the cells assigned by the two loops of lines 268-276, as <<row, column>>
\* of the table (1-based): enumerate(columns[:6]) and enumerate(row[:6])
DocxWrites(df) ==
    LET sample_data == DataHead(df, HeadRows)
    IN  {<<1, j>> : j \in 1..Min(sample_data.ncols, ColLimit)}
          \cup {<<i + 1, j>> : i \in 1..sample_data.nrows,
                               j \in 1..Min(sample_data.ncols, ColLimit)}

\* a write outside the grid of add_table is an IndexError
DocxTableRaises(df) ==
    \E w \in DocxWrites(df) : w[1] > DocxTableRows(df) \/ w[2] > DocxTableCols(df)

\* the table after the loops: str(col) in the header row, str(value) below
DocxTable(df) ==
    LET sample_data == DataHead(df, HeadRows)
    IN  [i \in 1..DocxTableRows(df) |->
            [j \in 1..DocxTableCols(df) |->
                IF <<i, j>> \notin DocxWrites(df) THEN EmptyCell
                ELSE IF i = 1 THEN PyStr(ColumnLabel(sample_data, j))
                ELSE PyStr(ValuesAt(sample_data, i - 1, j))]]

\* the body of the document, lines 229-295
DocxElements(df, config, t) ==
    LET analysis == config.analysis
        findings == DictGet(analysis, "key_findings", <<>>)
        recommendations == DictGet(analysis, "recommendations", <<>>)
    IN  <<DocxElement("heading", "Title", config.title, "CENTER"),
          DocxParagraph(<<"Date: ", config.date>>),
          DocxParagraph(<<"Company: ", config.company>>),
          DocxParagraph(<<"Author: ", config.author>>),
          DocxParagraph(<<"Generated: ", Strftime(t)>>),
          DocxParagraph(<<>>),
          DocxHeading(<<"Executive Summary">>, 1),
          DocxParagraph(<<DocxRunText(DictGet(analysis, "executive_summary",
                                              PyText("No summary available")))>>),
          DocxParagraph(<<>>),
          DocxHeading(<<"Key Findings">>, 1)>>
        \o DocxList(findings, "List Bullet") \o
        <<DocxParagraph(<<>>),
          DocxHeading(<<"Statistical Analysis">>, 1),
          DocxParagraph(<<DocxRunText(DictGet(analysis, "statistical_analysis",
                                              PyText("No statistical analysis available")))>>),
          DocxParagraph(<<>>),
          DocxHeading(<<"Data Summary">>, 1),
          [kind |-> "table", style |-> "Light Grid Accent 1", text |-> <<>>,
           cells |-> DocxTable(df), align |-> ""],
          DocxParagraph(<<>>),
          DocxElement("page_break", "", <<>>, ""),
          DocxHeading(<<"Recommendations">>, 1)>>
        \o DocxList(recommendations, "List Number") \o
        <<DocxParagraph(<<>>),
          DocxHeading(<<"Conclusion">>, 1),
          DocxParagraph(<<DocxRunText(DictGet(analysis, "conclusion",
                                              PyText("No conclusion available")))>>),
          DocxParagraph(<<>>),
          DocxElement("paragraph", "Normal",
                      <<"Generated by ReportAI - ", Strftime(t)>>, "CENTER")>>

\* the first statement of _generate_word that raises before doc.save, or
\* "none"
DocxRaises(df, config) ==
    LET analysis == config.analysis
        findings == DictGet(analysis, "key_findings", <<>>)
        recommendations == DictGet(analysis, "recommendations", <<>>)
    IN  CASE DocxRunRefused(DictGet(analysis, "executive_summary", PyText("")))
                -> "Executive Summary"
          [] \E k \in 1..Len(findings) : DocxRunRefused(findings[k]) -> "Key Findings"
          [] DocxRunRefused(DictGet(analysis, "statistical_analysis", PyText("")))
                -> "Statistical Analysis"
          [] DocxTableRaises(df) -> "Data Summary"
          [] \E k \in 1..Len(recommendations) : DocxRunRefused(recommendations[k])
                -> "Recommendations"
          [] DocxRunRefused(DictGet(analysis, "conclusion", PyText("")))
                -> "Conclusion"
          [] OTHER -> "none"

\* _generate_word up to doc.save: the document held in memory
GenerateWord(df, config, t) ==
    IF DocxRaises(df, config) = "none"
    THEN [ok |-> TRUE, stage |-> "none", elements |-> DocxElements(df, config, t)]
    ELSE [ok |-> FALSE, stage |-> DocxRaises(df, config), elements |-> <<>>]

\* ---------------------------------------------------------- _generate_excel
XlsxCell(text, font) == [text |-> text, font |-> font]

\* the Summary sheet, lines 316-340, as <<row, column>> -> cell
XlsxSummary(config) ==
    LET analysis == config.analysis
        findings == DictGet(analysis, "key_findings", <<>>)
        fixed == {<<1, 1>>, <<3, 1>>, <<3, 2>>, <<4, 1>>, <<4, 2>>, <<5, 1>>, <<5, 2>>,
                  <<7, 1>>, <<8, 1>>, <<10, 1>>}
        rows == {<<FindingsRow + k - 1, 1>> : k \in 1..Len(findings)}
    IN  [a \in fixed \cup rows |->
            CASE a = <<1, 1>> -> XlsxCell(config.title, "18 bold")
              [] a = <<3, 1>> -> XlsxCell(<<"Date:">>, "")
              [] a = <<3, 2>> -> XlsxCell(<<config.date>>, "")
              [] a = <<4, 1>> -> XlsxCell(<<"Company:">>, "")
              [] a = <<4, 2>> -> XlsxCell(<<config.company>>, "")
              [] a = <<5, 1>> -> XlsxCell(<<"Author:">>, "")
              [] a = <<5, 2>> -> XlsxCell(<<config.author>>, "")
              [] a = <<7, 1>> -> XlsxCell(<<"Executive Summary">>, "14 bold")
              [] a = <<8, 1>> -> XlsxCell(<<DictGet(analysis, "executive_summary",
                                                    PyText("")).s>>, "")
              [] a = <<10, 1>> -> XlsxCell(<<"Key Findings">>, "14 bold")
              [] OTHER -> XlsxCell(<<"* ", findings[a[1] - FindingsRow + 1].s>>, "")]

\* data rows written from row 1 on, where the header row goes
XlsxDataRowNoHeader(r_idx) == r_idx

\* ws_data.cell(row=r_idx+1, ...) for enumerate(data.itertuples(), 1)
XlsxDataRow(r_idx) == r_idx + 1

\* the Data sheet, lines 343-354: the rows first, then the header cells of
\* row 1 written over whatever is there
XlsxData(df) ==
    LET body == {<<XlsxDataRow(r), c>> : r \in 1..df.nrows, c \in 1..df.ncols}
        header == {<<1, c>> : c \in 1..df.ncols}
    IN  [a \in body \cup header |->
            IF a \in header THEN ColumnLabel(df, a[2])
            ELSE LET r_idx == CHOOSE r \in 1..df.nrows : XlsxDataRow(r) = a[1]
                 IN  ItertuplesItem(ValuesAt(df, r_idx, a[2]))]

\* _generate_excel up to wb.save: the workbook held in memory
GenerateExcel(df, config) ==
    [ok |-> TRUE, stage |-> "none",
     sheets |-> <<"Summary", "Data">>,
     summary |-> XlsxSummary(config), data |-> XlsxData(df)]

\* -------------------------------------------------------------- AIAnalyzer
AnalysisKeys ==
    {"executive_summary", "key_findings", "statistical_analysis",
     "recommendations", "conclusion"}

\* the mean and the standard deviation of the numeric columns, "nan" when
\* there is none to average
NumericStats(df) ==
    IF df.dtype = "int64" /\ df.ncols > 0 /\ df.nrows > 0 THEN "num" ELSE "nan"

\* the f-string texts of _mock_analysis: the language's wording with
\* len(data), len(data.columns) and the statistics filled in
MockText(lang, key, df) ==
    PyText(lang \o ":" \o key \o ":" \o ToString(df.nrows) \o ":"
           \o ToString(df.ncols) \o ":" \o NumericStats(df))

\* the literal texts of _mock_analysis
MockFixed(lang, key) == PyText(lang \o ":" \o key)

\* _mock_analysis: Finnish for "fi", English for every other language
MockAnalysis(df, language) ==
    LET lang == IF language = "fi" THEN "fi" ELSE "en"
    IN  [executive_summary |-> MockText(lang, "executive_summary", df),
         key_findings |-> <<MockText(lang, "finding1", df), MockText(lang, "finding2", df),
                            MockFixed(lang, "finding3"), MockFixed(lang, "finding4")>>,
         statistical_analysis |-> MockText(lang, "statistical_analysis", df),
         recommendations |-> <<MockFixed(lang, "rec1"), MockFixed(lang, "rec2"),
                               MockFixed(lang, "rec3")>>,
         conclusion |-> MockFixed(lang, "conclusion")]

\* _prepare_data_summary raises on ', '.join(columns) when a label is no
\* str, and on data.describe() when the frame has no column
PrepareRaises(df) ==
    IF df.coltype # "str" /\ df.ncols > 0 THEN "TypeError"
    ELSE IF df.ncols = 0 THEN "ValueError"
    ELSE "none"

\* analysis_text[a:b] of a text of length len: the characters a..b-1 that
\* exist
Slice(len, a, b) ==
    PyText([from |-> Min(a, len), to |-> Min(b, len)])

\* _structure_analysis: whatever json.loads returns, else the text cut at
\* 500, 1000, 1500 and 2000
StructureAnalysis(reply) ==
    IF reply.json THEN reply.value
    ELSE [executive_summary |-> Slice(reply.len, 0, 500),
          key_findings |-> <<Slice(reply.len, 500, 1000)>>,
          statistical_analysis |-> Slice(reply.len, 1000, 1500),
          recommendations |-> <<Slice(reply.len, 1500, 2000)>>,
          conclusion |-> Slice(reply.len, 2000, reply.len)]

\* stands where no analysis is held
NoValue == [none |-> PyText("")]

\* analyze: has_client is self.client, api is what messages.create does
\* ("error" when it raises, else the reply text)
Analyze(has_client, df, template_type, language, api) ==
    IF ~has_client
    THEN [outcome |-> "returned", path |-> "no_client",
          value |-> MockAnalysis(df, language), exc |-> "none"]
    ELSE IF PrepareRaises(df) # "none"
    THEN [outcome |-> "raised", path |-> "prepare",
          value |-> NoValue, exc |-> PrepareRaises(df)]
    ELSE IF api.kind = "error"
    THEN [outcome |-> "returned", path |-> "api_error",
          value |-> MockAnalysis(df, language), exc |-> "none"]
    ELSE [outcome |-> "returned",
          path |-> IF api.json THEN "parsed" ELSE "unparsable",
          value |-> StructureAnalysis(api), exc |-> "none"]

\* ------------------------------------------------------- ReportGenerator
Calls == 1..MaxCalls

Formats == {"pdf", "word", "excel", "txt"}

Titles == {<<>>, <<"Q", " ", "R", "/", "1">>}

\* config['title'].replace(' ', '_').replace('/', '_')
SafeTitle(title) ==
    [i \in 1..Len(title) |-> IF title[i] \in {" ", "/"} THEN "_" ELSE title[i]]

\* _get_extension: extensions.get(format, "pdf")
GetExtension(format) ==
    CASE format = "pdf" -> "pdf"
      [] format = "word" -> "docx"
      [] format = "excel" -> "xlsx"
      [] OTHER -> "pdf"

\* lines 52-55: the output path of a call made at clock reading t
OutputPath(title, format, t) ==
    [dir |-> "outputs", title |-> SafeTitle(title), timestamp |-> t,
     ext |-> GetExtension(format)]

\* a dispatch that falls back to the PDF renderer the way _get_extension
\* falls back to "pdf"
DispatchFallsBack(output_format) ==
    CASE output_format = "word" -> "_generate_word"
      [] output_format = "excel" -> "_generate_excel"
      [] OTHER -> "_generate_pdf"

\* the if/elif chain of lines 58-65: the renderer a format token selects
Dispatch(output_format) ==
    CASE output_format = "pdf" -> "_generate_pdf"
      [] output_format = "word" -> "_generate_word"
      [] output_format = "excel" -> "_generate_excel"
      [] OTHER -> "unsupported"

\* the in-memory part of the selected renderer
RenderResult(renderer, df, cfg, t) ==
    CASE renderer = "_generate_pdf" -> GeneratePdf(df, cfg, t)
      [] renderer = "_generate_word" -> GenerateWord(df, cfg, t)
      [] renderer = "_generate_excel" -> GenerateExcel(df, cfg)

NoError == [kind |-> "none", token |-> "", stage |-> ""]

NoPath == [dir |-> "", title |-> <<>>, timestamp |-> 0, ext |-> ""]

IdleCall ==
    [pc |-> "idle", title |-> <<>>, format |-> "", path |-> NoPath,
     renderer |-> "", error |-> NoError]

Frame(nrows, ncols, dtype, coltype) ==
    [nrows |-> nrows, ncols |-> ncols, dtype |-> dtype, coltype |-> coltype]

BaseConfig(title, analysis) ==
    [title |-> title, date |-> "2024-01-01", company |-> "ACME", author |-> "QA",
     analysis |-> analysis]

VARIABLES
    now,        \* the wall clock, in seconds
    calls,      \* generate calls: position, arguments, output path, error
    files,      \* the outputs directory: path -> [writer, state, renderer]
    data,       \* the DataFrame handed to the generator / analyzer
    config,     \* the report configuration handed to the renderers
    pdfDoc,     \* what _generate_pdf built for (data, config)
    wordDoc,    \* what _generate_word built for (data, config)
    xlsxBook,   \* what _generate_excel built for (data, config)
    request,    \* the arguments of analyze and its environment
    result,     \* what analyze did
    file_store, \* main.py file_store: file_id -> metadata
    uploads,    \* the files of the uploads directory
    reports,    \* the files main.py has in its outputs directory
    issued,     \* how many file ids uuid4 has handed out
    response    \* the last HTTP request and the answer it got

vars == <<now, calls, files, data, config, pdfDoc, wordDoc, xlsxBook, request, result,
          file_store, uploads, reports, issued, response>>

NotRun == [ok |-> FALSE, stage |-> "not run"]

NoRequest == [has_client |-> FALSE, language |-> "", template_type |-> ""]

NoResult == [outcome |-> "none", path |-> "", value |-> NoValue, exc |-> "none"]

renderVars == <<data, config, pdfDoc, wordDoc, xlsxBook>>
analyzeVars == <<request, result>>
generatorVars == <<now, calls, files>>
httpVars == <<file_store, uploads, reports, issued, response>>

NoResponse ==
    [endpoint |-> "", file_id |-> 0, known |-> FALSE, format |-> "",
     status |-> 0, detail |-> "", success |-> FALSE,
     filename |-> [stem |-> 0, ext |-> ""]]

HttpIdle ==
    /\ file_store = <<>> /\ uploads = {} /\ reports = {}
    /\ issued = 0 /\ response = NoResponse

\* ---------------------------------------------------------------- Spec
\* calls of generate against one directory and one clock
Init ==
    /\ now = 0
    /\ calls = [c \in Calls |-> IdleCall]
    /\ files = <<>>
    /\ data \in {Frame(0, 0, "int64", "str"), Frame(2, 2, "int64", "str")}
    /\ config = BaseConfig(<<>>, MockAnalysis(data, "en"))
    /\ pdfDoc = NotRun /\ wordDoc = NotRun /\ xlsxBook = NotRun
    /\ request = NoRequest /\ result = NoResult
    /\ HttpIdle

Tick ==
    /\ now < MaxClock
    /\ now' = now + 1
    /\ UNCHANGED <<calls, files, renderVars, analyzeVars, httpVars>>

\* generate, lines 51-65: the filename, then the dispatch on output_format
GenerateBegin(c, title, output_format) ==
    /\ calls[c].pc = "idle"
    /\ \A b \in Calls : b < c => calls[b].pc # "idle"
    /\ LET renderer == Dispatch(output_format)
           begun == [IdleCall EXCEPT !.title = title, !.format = output_format,
                                     !.path = OutputPath(title, output_format, now)]
       IN  calls' = [calls EXCEPT ![c] =
                IF renderer = "unsupported"
                THEN [begun EXCEPT !.pc = "raised",
                                   !.error = [kind |-> "ValueError",
                                              token |-> output_format,
                                              stage |-> "dispatch"]]
                ELSE [begun EXCEPT !.pc = "render", !.renderer = renderer]]
    /\ UNCHANGED <<now, files, renderVars, analyzeVars, httpVars>>

\* the renderer builds its document in memory; a statement that raises
\* ends the call
RenderBuild(c) ==
    /\ calls[c].pc = "render"
    /\ LET cfg == [config EXCEPT !.title = calls[c].title]
           built == RenderResult(calls[c].renderer, data, cfg, now)
       IN  calls' = [calls EXCEPT ![c] =
                IF built.ok THEN [@ EXCEPT !.pc = "save"]
                ELSE [@ EXCEPT !.pc = "raised",
                               !.error = [kind |-> "RenderError", token |-> "",
                                          stage |-> built.stage]]]
    /\ UNCHANGED <<now, files, renderVars, analyzeVars, httpVars>>

\* doc.build / doc.save / wb.save open str(output_path) for writing: the
\* file exists from here on, whatever was at the path is gone
SaveOpen(c) ==
    /\ calls[c].pc = "save"
    /\ files' = [p \in DOMAIN files \cup {calls[c].path} |->
                    IF p = calls[c].path
                    THEN [writer |-> c, state |-> "partial",
                          renderer |-> calls[c].renderer]
                    ELSE files[p]]
    /\ calls' = [calls EXCEPT ![c].pc = "writing"]
    /\ UNCHANGED <<now, renderVars, analyzeVars, httpVars>>

\* the write completes and generate returns output_path
SaveFinish(c) ==
    /\ calls[c].pc = "writing"
    /\ files' = [files EXCEPT ![calls[c].path] =
                    [writer |-> c, state |-> "complete",
                     renderer |-> calls[c].renderer]]
    /\ calls' = [calls EXCEPT ![c].pc = "returned"]
    /\ UNCHANGED <<now, renderVars, analyzeVars, httpVars>>

\* the write raises (disk full, a part that cannot be serialised): the
\* exception leaves generate, nothing removes the file
SaveFail(c) ==
    /\ calls[c].pc = "writing"
    /\ calls' = [calls EXCEPT ![c].pc = "raised",
                              ![c].error = [kind |-> "RenderError", token |-> "",
                                            stage |-> "save"]]
    /\ UNCHANGED <<now, files, renderVars, analyzeVars, httpVars>>

Next ==
    \/ Tick
    \/ \E c \in Calls, title \in Titles, f \in Formats : GenerateBegin(c, title, f)
    \/ \E c \in Calls : RenderBuild(c)
    \/ \E c \in Calls : SaveOpen(c)
    \/ \E c \in Calls : SaveFinish(c)
    \/ \E c \in Calls : SaveFail(c)

Spec == Init /\ [][Next]_vars

\* ----------------------------------------------------------- SpecRender
\* the three renderers applied to one dataset and one configuration
AllFrames ==
    {Frame(r, c, d, ct) : r \in 0..MaxRows, c \in 0..MaxCols, d \in Dtypes, ct \in ColTypes}

\* an analysis parsed from a JSON reply, with n findings and recommendations
ApiAnalysis(n) ==
    [executive_summary |-> PyText("api:executive_summary"),
     key_findings |-> [k \in 1..n |-> PyText("api:finding" \o ToString(k))],
     statistical_analysis |-> PyText("api:statistical_analysis"),
     recommendations |-> [k \in 1..n |-> PyText("api:rec" \o ToString(k))],
     conclusion |-> PyText("api:conclusion")]

\* a JSON reply that left keys out
PartialAnalysis == [executive_summary |-> PyText("api:executive_summary")]

RenderAnalyses(df) ==
    {MockAnalysis(df, "en"), MockAnalysis(df, "fi"), PartialAnalysis}
        \cup {ApiAnalysis(n) : n \in 0..MaxItems}

InitRender ==
    /\ now = 0
    /\ calls = [c \in Calls |-> IdleCall]
    /\ files = <<>>
    /\ data \in AllFrames
    /\ config \in {BaseConfig(<<"Q", " ", "R">>, a) : a \in RenderAnalyses(data)}
    /\ pdfDoc = NotRun /\ wordDoc = NotRun /\ xlsxBook = NotRun
    /\ request = NoRequest /\ result = NoResult
    /\ HttpIdle

RenderPdf ==
    /\ pdfDoc = NotRun
    /\ pdfDoc' = GeneratePdf(data, config, now)
    /\ UNCHANGED <<generatorVars, data, config, wordDoc, xlsxBook, analyzeVars, httpVars>>

RenderWord ==
    /\ wordDoc = NotRun
    /\ wordDoc' = GenerateWord(data, config, now)
    /\ UNCHANGED <<generatorVars, data, config, pdfDoc, xlsxBook, analyzeVars, httpVars>>

RenderExcel ==
    /\ xlsxBook = NotRun
    /\ xlsxBook' = GenerateExcel(data, config)
    /\ UNCHANGED <<generatorVars, data, config, pdfDoc, wordDoc, analyzeVars, httpVars>>

NextRender == RenderPdf \/ RenderWord \/ RenderExcel

SpecRender == InitRender /\ [][NextRender]_vars

\* ----------------------------------------------------------- SpecNested
\* the renderers applied to an analysis whose statistical_analysis came
\* out of json.loads as a nested value
NestedAnalyses ==
    {[ApiAnalysis(n) EXCEPT
        !.statistical_analysis = PyNested(ty, "api:statistical_analysis")] :
            n \in 0..MaxItems, ty \in NestedTypes}

InitNested ==
    /\ now = 0
    /\ calls = [c \in Calls |-> IdleCall]
    /\ files = <<>>
    /\ data \in AllFrames
    /\ config \in {BaseConfig(<<"Q", " ", "R">>, a) : a \in NestedAnalyses}
    /\ pdfDoc = NotRun /\ wordDoc = NotRun /\ xlsxBook = NotRun
    /\ request = NoRequest /\ result = NoResult
    /\ HttpIdle

SpecNested == InitNested /\ [][NextRender]_vars

\* ---------------------------------------------------------- SpecAnalyze
\* one call of AIAnalyzer.analyze
Languages == {"en", "fi", "sv"}

TemplateTypes == {"testing", "quality"}

\* what self.client.messages.create does: it raises, or it answers with a
\* text that is JSON (an object with all keys, with some, with none of
\* them) or is not
ApiReplies ==
    {[kind |-> "error", json |-> FALSE, len |-> 0, value |-> NoValue],
     [kind |-> "text", json |-> TRUE, len |-> 0, value |-> ApiAnalysis(1)],
     [kind |-> "text", json |-> TRUE, len |-> 0, value |-> PartialAnalysis],
     [kind |-> "text", json |-> TRUE, len |-> 0, value |-> [answer |-> PyText("api:item")]]}
        \cup {[kind |-> "text", json |-> FALSE, len |-> n, value |-> NoValue] :
                n \in {0, 700, 2500}}

InitAnalyze ==
    /\ now = 0
    /\ calls = [c \in Calls |-> IdleCall]
    /\ files = <<>>
    /\ data \in AllFrames
    /\ config = BaseConfig(<<>>, NoValue)
    /\ pdfDoc = NotRun /\ wordDoc = NotRun /\ xlsxBook = NotRun
    /\ request \in [has_client : BOOLEAN, language : Languages,
                    template_type : TemplateTypes]
    /\ result = NoResult
    /\ HttpIdle

AnalyzeCall(api) ==
    /\ result = NoResult
    /\ result' = Analyze(request.has_client, data, request.template_type,
                         request.language, api)
    /\ UNCHANGED <<generatorVars, renderVars, request, httpVars>>

NextAnalyze == \E api \in ApiReplies : AnalyzeCall(api)

SpecAnalyze == InitAnalyze /\ [][NextAnalyze]_vars

\* -------------------------------------------------------------- SpecHttp
\* the handlers of main.py; each is a coroutine without an await, so a
\* request runs from its first line to its answer
FileIds == 1..MaxUploads

UploadExts == {".csv", ".xlsx", ".txt"}

\* the methods the two collaborators define
AIAnalyzerMethods ==
    {"analyze", "_prepare_data_summary", "_create_prompt", "_structure_analysis",
     "_mock_analysis"}

ReportGeneratorMethods ==
    {"generate", "_get_extension", "_generate_pdf", "_generate_word", "_generate_excel"}

Raised(exc, status) ==
    [raised |-> TRUE, exc |-> exc, status |-> status, success |-> FALSE,
     filename |-> [stem |-> 0, ext |-> ""]]

Returned(filename) ==
    [raised |-> FALSE, exc |-> "", status |-> 200, success |-> TRUE,
     filename |-> filename]

\* "except Exception as e: raise HTTPException(status_code=500, ...)":
\* HTTPException is an Exception, so whatever the body raised is answered
\* with 500
ExceptException(outcome) ==
    IF outcome.raised THEN Raised(outcome.exc, 500) ELSE outcome

\* the method of report_generator that main.py calls for a format
GeneratorMethod(output_format) ==
    CASE output_format = "pdf" -> "generate_pdf"
      [] output_format = "word" -> "generate_docx"
      [] output_format = "excel" -> "generate_xlsx"
      [] OTHER -> ""

\* the body of generate_report inside its try
GenerateReportBody(store, file_id, output_format) ==
    IF file_id \notin DOMAIN store THEN Raised("HTTPException", 404)
    ELSE IF "analyze_data" \notin AIAnalyzerMethods THEN Raised("AttributeError", 0)
    ELSE IF output_format \notin {"pdf", "word", "excel"} THEN Raised("HTTPException", 400)
    ELSE IF GeneratorMethod(output_format) \notin ReportGeneratorMethods
    THEN Raised("AttributeError", 0)
    ELSE Returned([stem |-> file_id, ext |-> output_format])

Answer(endpoint, file_id, output_format, outcome) ==
    [endpoint |-> endpoint, file_id |-> file_id, known |-> file_id \in DOMAIN file_store,
     format |-> output_format, status |-> outcome.status, detail |-> outcome.exc,
     success |-> outcome.success, filename |-> outcome.filename]

InitHttp ==
    /\ now = 0
    /\ calls = [c \in Calls |-> IdleCall]
    /\ files = <<>>
    /\ data = Frame(2, 2, "int64", "str")
    /\ config = BaseConfig(<<>>, NoValue)
    /\ pdfDoc = NotRun /\ wordDoc = NotRun /\ xlsxBook = NotRun
    /\ request = NoRequest /\ result = NoResult
    /\ HttpIdle

\* POST /api/upload: the type check, the copy into uploads, the read of
\* the copy (readable: pandas can parse it), the file_store entry
UploadFile(ext, readable) ==
    /\ issued < MaxUploads
    /\ LET file_id == issued + 1
           body == IF ext \notin {".xlsx", ".xls", ".csv"} THEN Raised("HTTPException", 400)
                   ELSE IF ~readable THEN Raised("ParserError", 0)
                   ELSE Returned([stem |-> file_id, ext |-> ext])
           saved == ext \in {".xlsx", ".xls", ".csv"}
       IN  /\ issued' = IF saved THEN file_id ELSE issued
           /\ uploads' = IF saved THEN uploads \cup {[stem |-> file_id, ext |-> ext]}
                         ELSE uploads
           /\ file_store' =
                IF body.raised THEN file_store
                ELSE [i \in DOMAIN file_store \cup {file_id} |->
                        IF i = file_id
                        THEN [filename |-> ext, filepath |-> [stem |-> file_id, ext |-> ext]]
                        ELSE file_store[i]]
           /\ response' = Answer("upload", IF saved THEN file_id ELSE 0, ext,
                                 ExceptException(body))
    /\ UNCHANGED <<reports, generatorVars, renderVars, analyzeVars>>

\* POST /api/generate
GenerateReport(file_id, output_format) ==
    /\ response' = Answer("generate", file_id, output_format,
                          ExceptException(GenerateReportBody(file_store, file_id,
                                                             output_format)))
    \* report_<file_id>.<output_format>, written by the generator method
    /\ reports' = IF GenerateReportBody(file_store, file_id, output_format).raised
                  THEN reports
                  ELSE reports \cup {[stem |-> file_id, ext |-> output_format]}
    /\ UNCHANGED <<file_store, uploads, issued, generatorVars, renderVars, analyzeVars>>

\* DELETE /api/cleanup/{file_id}
CleanupFiles(file_id) ==
    /\ IF file_id \in DOMAIN file_store
       THEN /\ uploads' = uploads \ {file_store[file_id].filepath}
            /\ file_store' = [i \in DOMAIN file_store \ {file_id} |-> file_store[i]]
            /\ response' = Answer("cleanup", file_id, "",
                                  Returned([stem |-> 0, ext |-> ""]))
       ELSE /\ UNCHANGED <<uploads, file_store>>
            /\ response' = Answer("cleanup", file_id, "",
                                  ExceptException(Raised("HTTPException", 404)))
    \* no statement of cleanup_files touches the outputs directory
    /\ UNCHANGED <<reports, issued, generatorVars, renderVars, analyzeVars>>

NextHttp ==
    \/ \E ext \in UploadExts, readable \in BOOLEAN : UploadFile(ext, readable)
    \/ \E file_id \in FileIds, f \in Formats : GenerateReport(file_id, f)
    \/ \E file_id \in FileIds : CleanupFiles(file_id)

SpecHttp == InitHttp /\ [][NextHttp]_vars

\* ================================================================ claims
Supported == {"pdf", "word", "excel"}

\* ---------------------------------------------------------------- C1
\* the step that makes a call with an unsupported token ends the call in
\* the error carrying the token and leaves the output directory as it was
C1_UnsupportedStep ==
    \A c \in Calls :
        (calls[c].pc = "idle" /\ calls'[c].pc # "idle" /\ calls'[c].format \notin Supported)
            => /\ calls'[c].pc = "raised"
               /\ calls'[c].error.kind = "ValueError"
               /\ calls'[c].error.token = calls'[c].format
               /\ files' = files

\* a call with an unsupported token stays ended and holds no file
C1_UnsupportedEnded ==
    \A c \in Calls :
        (calls[c].pc # "idle" /\ calls[c].format \notin Supported)
            => /\ calls[c].pc = "raised"
               /\ calls[c].error.token = calls[c].format
               /\ \A p \in DOMAIN files : files[p].writer # c

\* C1: a generate call with a format token other than "pdf", "word" and
\* "excel" fails with the unsupported-format error carrying that token, and
\* the output directory holds the same files after the call as before it.
C1_UnsupportedFormat == []C1_UnsupportedEnded /\ [][C1_UnsupportedStep]_vars

\* an unsupported call has been rejected while the directory holds a file
C1_Witness ==
    \E c \in Calls :
        /\ calls[c].pc = "raised"
        /\ calls[c].format = "txt"
        /\ calls[c].error.kind = "ValueError"
        /\ DOMAIN files # {}

\* ---------------------------------------------------------------- C2
\* C2: two generate calls with the same title and the same format made in
\* the same wall-clock second have different output filenames.
C2_DistinctFilenames ==
    \A c1, c2 \in Calls :
        (/\ c1 # c2
         /\ calls[c1].pc # "idle" /\ calls[c2].pc # "idle"
         /\ calls[c1].title = calls[c2].title
         /\ calls[c1].format = calls[c2].format
         /\ calls[c1].path.timestamp = calls[c2].path.timestamp)
            => calls[c1].path # calls[c2].path

\* ---------------------------------------------------------------- C3
\* C3: after a renderer has failed, no file exists at the output path of
\* its call.
C3_NoPartialFile ==
    \A c \in Calls :
        (calls[c].pc = "raised" /\ calls[c].error.kind = "RenderError")
            => calls[c].path \notin DOMAIN files

\* ---------------------------------------------------------------- C9
\* C9: a generate call with an empty title is rejected with a validation
\* error; no renderer runs for it and it creates no file.
C9_EmptyTitleRejected ==
    \A c \in Calls :
        (calls[c].pc # "idle" /\ calls[c].title = <<>>)
            => /\ calls[c].pc = "raised"
               /\ calls[c].error.kind = "ValidationError"

\* --------------------------------------------------------------- C10
MappedExtension(output_format) ==
    CASE output_format = "pdf" -> "pdf"
      [] output_format = "word" -> "docx"
      [] output_format = "excel" -> "xlsx"

MappedRenderer(output_format) ==
    CASE output_format = "pdf" -> "_generate_pdf"
      [] output_format = "word" -> "_generate_word"
      [] output_format = "excel" -> "_generate_excel"

\* C10 (generate): the path a call returns carries the extension mapped to
\* its format and the file there was produced by the matching renderer.
C10_GeneratePath ==
    \A c \in Calls :
        calls[c].pc = "returned"
            => /\ calls[c].format \in Supported
               /\ calls[c].path.ext = MappedExtension(calls[c].format)
               /\ calls[c].renderer = MappedRenderer(calls[c].format)

\* C10: for each accepted format the artifact's filename carries the
\* mapped extension, for the path generate returns and for the filename
\* POST /api/generate reports for a stored file.
C10_ExtensionMapped ==
    /\ C10_GeneratePath
    /\ (response.endpoint = "generate" /\ response.known /\ response.format \in Supported)
            => /\ response.success
               /\ response.filename.ext = MappedExtension(response.format)

\* ---------------------------------------------------------------- C4
RequiredSections ==
    <<"Title", "Date", "Company", "Author", "Generated", "Executive Summary",
      "Key Findings", "Statistical Analysis", "Data Summary", "PageBreak",
      "Recommendations", "Conclusion", "Footer">>

RECURSIVE Concat(_)
Concat(seqs) == IF seqs = <<>> THEN <<>> ELSE Head(seqs) \o Concat(Tail(seqs))

MetaLabel(label) ==
    CASE label \in {"Date:", "Date: "} -> <<"Date">>
      [] label \in {"Company:", "Company: "} -> <<"Company">>
      [] label \in {"Author:", "Author: "} -> <<"Author">>
      [] label \in {"Generated:", "Generated: "} -> <<"Generated">>
      [] OTHER -> <<>>

\* the sections a PDF flowable list shows, in order
PdfSections(elements) ==
    Concat([k \in 1..Len(elements) |->
        LET e == elements[k]
        IN  CASE e.kind = "Paragraph" /\ e.style = "CustomTitle" -> <<"Title">>
              [] e.kind = "Paragraph" /\ e.style = "CustomHeading" -> e.text
              [] e.kind = "Paragraph" /\ e.style = "Footer" -> <<"Footer">>
              [] e.kind = "Table" /\ e.style = "meta" ->
                    Concat([i \in 1..Len(e.text) |-> MetaLabel(e.text[i])])
              [] e.kind = "PageBreak" -> <<"PageBreak">>
              [] OTHER -> <<>>])

\* the sections a DOCX body shows, in order
DocxSections(elements) ==
    Concat([k \in 1..Len(elements) |->
        LET e == elements[k]
        IN  CASE e.kind = "heading" /\ e.style = "Title" -> <<"Title">>
              [] e.kind = "heading" /\ e.style # "Title" -> e.text
              [] e.kind = "page_break" -> <<"PageBreak">>
              [] e.kind = "paragraph" /\ e.style = "Normal" /\ Len(e.text) = 2 ->
                    IF e.text[1] = "Generated by ReportAI - " THEN <<"Footer">>
                    ELSE MetaLabel(e.text[1])
              [] OTHER -> <<>>])

\* the sections a workbook shows: column A of the Summary sheet from the
\* top, then the Data sheet
XlsxSections(book) ==
    LET lastRow == FindingsRow + MaxItems + 4
    IN  Concat([r \in 1..lastRow |->
            IF <<r, 1>> \notin DOMAIN book.summary THEN <<>>
            ELSE LET cell == book.summary[<<r, 1>>]
                 IN  CASE cell.font = "18 bold" -> <<"Title">>
                       [] cell.font = "14 bold" -> cell.text
                       [] cell.font = "" /\ Len(cell.text) = 1 -> MetaLabel(cell.text[1])
                       [] OTHER -> <<>>])
        \o (IF "Data" \in {book.sheets[i] : i \in 1..Len(book.sheets)}
            THEN <<"Data Summary">> ELSE <<>>)

C4_PdfOrder == pdfDoc.ok => PdfSections(pdfDoc.elements) = RequiredSections

C4_DocxOrder == wordDoc.ok => DocxSections(wordDoc.elements) = RequiredSections

C4_XlsxOrder == xlsxBook.ok => XlsxSections(xlsxBook) = RequiredSections

\* C4: each of the three renderers emits Title, the metadata block (Date,
\* Company, Author, Generation timestamp), Executive Summary, Key Findings,
\* Statistical Analysis, Data Summary, a break, Recommendations, Conclusion
\* and Footer, in this order and with none missing.
C4_SectionOrder == C4_PdfOrder /\ C4_DocxOrder /\ C4_XlsxOrder

\* ---------------------------------------------------------------- C5
PdfDataTable(doc) ==
    LET k == CHOOSE k \in 1..Len(doc.elements) :
                doc.elements[k].kind = "Table" /\ doc.elements[k].style = "data"
    IN  doc.elements[k].cells

DocxDataTable(doc) ==
    LET k == CHOOSE k \in 1..Len(doc.elements) : doc.elements[k].kind = "table"
    IN  doc.elements[k].cells

\* a table of header row + data rows is the first min(rows, 10) rows and
\* the first min(columns, 6) columns of the dataset, in their order
IsPreviewOf(table, df) ==
    /\ Len(table) = Min(df.nrows, 10) + 1
    /\ \A i \in 1..Len(table) : Len(table[i]) = Min(df.ncols, 6)
    /\ \A j \in 1..Min(df.ncols, 6) : table[1][j].n = j
    /\ \A i \in 1..Min(df.nrows, 10), j \in 1..Min(df.ncols, 6) :
            table[i + 1][j].n = (i - 1) * df.ncols + j

C5_PdfPreview == pdfDoc # NotRun => pdfDoc.ok /\ IsPreviewOf(PdfDataTable(pdfDoc), data)

C5_DocxPreview == wordDoc # NotRun => wordDoc.ok /\ IsPreviewOf(DocxDataTable(wordDoc), data)

\* C5: for every dataset, zero rows and zero columns included, the PDF and
\* the DOCX renderer build without error a preview table of the first
\* min(rowCount, 10) rows and the first min(colCount, 6) columns.
C5_PreviewTable == C5_PdfPreview /\ C5_DocxPreview

\* ---------------------------------------------------------------- C6
\* C6: for the same configuration and dataset the PDF table and the DOCX
\* table have the same shape and show the same text in every header and
\* data cell (a PDF cell shows str() of the value it holds).
C6_SameTableContents ==
    (pdfDoc.ok /\ wordDoc.ok)
        => LET P == PdfDataTable(pdfDoc)
               W == DocxDataTable(wordDoc)
           IN  /\ Len(P) = Len(W)
               /\ \A i \in 1..Len(P) :
                    /\ Len(P[i]) = Len(W[i])
                    /\ \A j \in 1..Len(P[i]) : PyStr(P[i][j]) = W[i][j]

\* ---------------------------------------------------------------- C7
ScalarClass(type) ==
    CASE type \in {"int", "numpy.int64"} -> "integer"
      [] type = "str" -> "string"
      [] type \in {"numpy.datetime64", "Timestamp"} -> "date"

\* C7: the Data sheet of the workbook has the column names in row 1 and
\* dataset row r in row r+1, every cell (r+1, c) holding the value of row
\* r, column c: rowCount + 1 rows by colCount columns, nothing cut off.
C7_DataSheetFull ==
    xlsxBook # NotRun
        => /\ xlsxBook.ok
           /\ DOMAIN xlsxBook.data = (1..(data.nrows + 1)) \X (1..data.ncols)
           /\ \A c \in 1..data.ncols :
                xlsxBook.data[<<1, c>>] = [type |-> data.coltype, n |-> c]
           /\ \A r \in 1..data.nrows, c \in 1..data.ncols :
                /\ xlsxBook.data[<<r + 1, c>>].n = (r - 1) * data.ncols + c
                /\ ScalarClass(xlsxBook.data[<<r + 1, c>>].type)
                        = ScalarClass(NumpyType(data.dtype))

\* a workbook written for a dataset beyond the 10 x 6 preview
C7_Witness ==
    /\ xlsxBook # NotRun
    /\ xlsxBook.ok
    /\ data.nrows > HeadRows
    /\ data.ncols > ColLimit
    /\ Cardinality(DOMAIN xlsxBook.data) = (data.nrows + 1) * data.ncols

\* ---------------------------------------------------------------- C8
\* the fixed text of a language: Finnish for "fi", English for "en"
IsFallback(value, language) ==
    /\ DOMAIN value = AnalysisKeys
    /\ value.conclusion = PyText(language \o ":conclusion")
    /\ value.recommendations[1] = PyText(language \o ":rec1")

\* C8: analyze never raises; after any internal failure (no API key, a
\* failure preparing the summary or the prompt, a failed API call, a reply
\* that does not parse) it returns the five-field fallback of the language.
C8_NeverRaises ==
    result.outcome # "none"
        => /\ result.outcome = "returned"
           /\ (result.path \in {"no_client", "prepare", "api_error", "unparsable"}
                    /\ request.language \in {"fi", "en"})
                => IsFallback(result.value, request.language)

\* --------------------------------------------------------------- C11
StatIsNested ==
    config.analysis.statistical_analysis.type \in NestedTypes

\* the paragraph that follows the Statistical Analysis heading
PdfStatParagraph(doc) ==
    LET k == CHOOSE k \in 1..Len(doc.elements) :
                doc.elements[k].text = <<"Statistical Analysis">>
    IN  doc.elements[k + 2]

DocxStatParagraph(doc) ==
    LET k == CHOOSE k \in 1..Len(doc.elements) :
                doc.elements[k].text = <<"Statistical Analysis">>
    IN  doc.elements[k + 1]

C11_PdfNested ==
    (StatIsNested /\ pdfDoc # NotRun)
        => /\ pdfDoc.ok
           /\ Len(PdfStatParagraph(pdfDoc).text) = 1

C11_DocxNested ==
    (StatIsNested /\ wordDoc # NotRun)
        => /\ wordDoc.ok
           /\ Len(DocxStatParagraph(wordDoc).text) = 1

\* C11: when statistical_analysis is a nested structure (a mapping or a
\* list) and not a string, the PDF and the DOCX renderer, which show the
\* Statistical Analysis section, put it there as text and complete without
\* error.
C11_NestedStatRendered == C11_PdfNested /\ C11_DocxNested

\* --------------------------------------------------------------- C12
\* the header cells the loop of lines 268-270 assigns
DocxHeaderWrites(df) == {w \in DocxWrites(df) : w[1] = 1}

C12_Witness ==
    /\ wordDoc # NotRun /\ wordDoc.ok
    /\ data.ncols > ColLimit /\ data.nrows > HeadRows
    /\ Cardinality(DocxHeaderWrites(data)) = ColLimit

\* C12: the DOCX data table is created with (sampled rows + 1) rows and
\* with no fewer columns than the header cells written, so that every cell
\* write of the header and data loops addresses a cell of the table and
\* the renderer does not fail there, datasets of more than 6 columns
\* included.
C12_DocxTableGrid ==
    wordDoc # NotRun =>
        /\ wordDoc.ok
        /\ Len(DocxDataTable(wordDoc)) = Min(data.nrows, HeadRows) + 1
        /\ \A i \in 1..Len(DocxDataTable(wordDoc)) :
                Len(DocxDataTable(wordDoc)[i]) >= Cardinality(DocxHeaderWrites(data))
        /\ \A w \in DocxWrites(data) :
                /\ w[1] \in 1..Len(DocxDataTable(wordDoc))
                /\ w[2] \in 1..Len(DocxDataTable(wordDoc)[w[1]])
                /\ DocxDataTable(wordDoc)[w[1]][w[2]] # EmptyCell

\* --------------------------------------------------------------- C13
\* C13: POST /api/generate with a file_id present in file_store and an
\* output_format of pdf, word or excel gets its analysis, renders the
\* artifact and answers 200 with success = true and the artifact's
\* filename report_<file_id>.<format>, which is then in the outputs
\* directory.
C13_GenerateSucceeds ==
    (response.endpoint = "generate" /\ response.known /\ response.format \in Supported)
        => /\ response.status = 200
           /\ response.success
           /\ response.filename = [stem |-> response.file_id, ext |-> response.format]
           /\ response.filename \in reports

\* --------------------------------------------------------------- C14
UploadSuffixes == {".xlsx", ".xls", ".csv"}

\* C14: a handler answers with the status of the error it raised: generate
\* with an unknown file_id 404, generate with an unsupported output_format
\* 400, upload with a name of another suffix 400, cleanup with an unknown
\* file_id 404; none is answered 500.
C14_StatusPreserved ==
    /\ (response.endpoint = "generate" /\ ~response.known) => response.status = 404
    /\ (response.endpoint = "generate" /\ response.known
            /\ response.format \notin Supported) => response.status = 400
    /\ (response.endpoint = "upload" /\ response.format \notin UploadSuffixes)
            => response.status = 400
    /\ (response.endpoint = "cleanup" /\ ~response.known) => response.status = 404

\* --------------------------------------------------------------- C15
\* file_id was stored and a cleanup has removed it: ids are issued once,
\* and an upload that was never stored keeps its file in uploads
CleanedUp(file_id) ==
    /\ file_id \in 1..issued
    /\ file_id \notin DOMAIN file_store
    /\ \A u \in uploads : u.stem # file_id

\* the step of a cleanup that succeeds for file_id
C15_CleanupStep(file_id) ==
    /\ file_id \in DOMAIN file_store
    /\ response'.endpoint = "cleanup" /\ response'.file_id = file_id
    /\ response'.success

C15_Removed(file_id) ==
    /\ file_id \notin DOMAIN file_store'
    /\ file_store[file_id].filepath \notin uploads'
    /\ \A r \in reports' : r.stem # file_id
    /\ DOMAIN file_store' = DOMAIN file_store \ {file_id}
    /\ \A g \in DOMAIN file_store' : file_store'[g] = file_store[g]

\* a generate or a cleanup for an id that was cleaned up is answered 404
C15_LaterNotFound ==
    (response.endpoint \in {"generate", "cleanup"} /\ ~response.known
        /\ CleanedUp(response.file_id)) => response.status = 404

\* C15: a cleanup that succeeds for a stored file_id removes the uploaded
\* file, every report of that file_id and the file_store entry and leaves
\* the entries of all other file_ids as they were; a later generate or
\* cleanup with that file_id is answered as file not found (404).
C15_CleanupForgets ==
    [][(\A f \in FileIds : C15_CleanupStep(f) => C15_Removed(f))
            /\ C15_LaterNotFound']_vars

====
